---------------------------- MODULE Spec2Model ----------------------------
(***************************************************************************)
(* Solidity-Signature-Decoder: decode_keccak_signatures.js.                *)
(*                                                                         *)
(* The file holds two near-duplicate scripts: the first (lines 1-155)      *)
(* reports functions, custom errors and require statements; the second     *)
(* (lines 161-310) adds getters for public variables.  `version` says      *)
(* which of the two is running.                                            *)
(*                                                                         *)
(* Text is a sequence of one-character strings, so that the regular        *)
(* expressions of the scripts are matched character by character, with     *)
(* the leftmost-match, greedy/lazy backtracking order of JavaScript.       *)
(***************************************************************************)
EXTENDS Integers, Sequences, FiniteSets, TLC

(***************************************************************************)
(* Text used by the scripts' patterns and by the inputs of the checks.     *)
(***************************************************************************)
Str_function == <<"f", "u", "n", "c", "t", "i", "o", "n">>
Str_error == <<"e", "r", "r", "o", "r">>
Str_requireOpen == <<"r", "e", "q", "u", "i", "r", "e", "(">>
Str_public == <<"p", "u", "b", "l", "i", "c">>
Str_uint256 == <<"u", "i", "n", "t", "2", "5", "6">>
Str_address == <<"a", "d", "d", "r", "e", "s", "s">>
Str_calldata == <<"c", "a", "l", "l", "d", "a", "t", "a">>
Str_memory == <<"m", "e", "m", "o", "r", "y">>
Str_storage == <<"s", "t", "o", "r", "a", "g", "e">>
Str_x == <<"x">>
Str_r == <<"r">>
Str_recipients == <<"r", "e", "c", "i", "p", "i", "e", "n", "t", "s">>
Str_to == <<"t", "o">>
Str_amount == <<"a", "m", "o", "u", "n", "t">>
Str_transfer == <<"t", "r", "a", "n", "s", "f", "e", "r">>
Str_InsufficientBalance == <<"I", "n", "s", "u", "f", "f", "i", "c", "i", "e", "n", "t", "B", "a", "l", "a", "n", "c", "e">>
Str_totalSupply == <<"t", "o", "t", "a", "l", "S", "u", "p", "p", "l", "y">>
Str_owner == <<"o", "w", "n", "e", "r">>
Str_zero == <<"0">>
Str_msgSender == <<"m", "s", "g", ".", "s", "e", "n", "d", "e", "r">>
Str_ok == <<"o", "k">>
Str_balanceGeAmount == <<"b", "a", "l", "a", "n", "c", "e", " ", ">", "=", " ", "a", "m", "o", "u", "n", "t">>
Str_callAB == <<"f", "(", "a", ",", " ", "b", ")">>
Str_InsufficientBalanceMsg == <<"I", "n", "s", "u", "f", "f", "i", "c", "i", "e", "n", "t", " ", "b", "a", "l", "a", "n", "c", "e">>
Str_no == <<"n", "o">>
Str_publicReturnsBool == <<" ", "p", "u", "b", "l", "i", "c", " ", "r", "e", "t", "u", "r", "n", "s", " ", "(", "b", "o", "o", "l", ")">>
Str_f == <<"f">>
Str_E == <<"E">>
Str_y == <<"y">>
Str_one == <<"1">>
Str_pragma == <<"p", "r", "a", "g", "m", "a", " ", "s", "o", "l", "i", "d", "i", "t", "y", " ", "^", "0", ".", "8", ".", "0", ";">>
Str_externalBrace == <<" ", "e", "x", "t", "e", "r", "n", "a", "l", " ", "{">>

\* \w of a JavaScript regular expression: [A-Za-z0-9_]
WordChars ==
    {"a", "b", "c", "d", "e", "f", "g", "h", "i", "j", "k", "l", "m", "n", "o", "p", "q", "r", "s", "t", "u", "v", "w", "x", "y", "z",
     "A", "B", "C", "D", "E", "F", "G", "H", "I", "J", "K", "L", "M", "N", "O", "P", "Q", "R", "S", "T", "U", "V", "W", "X", "Y", "Z",
     "0", "1", "2", "3", "4", "5", "6", "7", "8", "9", "_"}

\* \s of a JavaScript regular expression (the members that can occur here)
SpaceChars == {" ", "\t", "\r", "\n"}

IsWord(c) == c \in WordChars

IsSpace(c) == c \in SpaceChars

\* . of a JavaScript regular expression: anything but a line terminator
IsDot(c) == c \notin {"\n", "\r"}

Min(S) == CHOOSE m \in S : \A n \in S : m <= n

Max(S) == CHOOSE m \in S : \A n \in S : m >= n

\* the literal `lit` occurs in s at position i
MatchLit(s, i, lit) ==
    /\ i >= 1
    /\ i + Len(lit) - 1 <= Len(s)
    /\ SubSeq(s, i, i + Len(lit) - 1) = lit

\* where the longest run of word characters from position p ends (p - 1 when
\* s[p] is none)
RECURSIVE WordRunEnd(_, _)
WordRunEnd(s, p) ==
    IF p <= Len(s) /\ IsWord(s[p]) THEN WordRunEnd(s, p + 1) ELSE p - 1

RECURSIVE SpaceRunEnd(_, _)
SpaceRunEnd(s, p) ==
    IF p <= Len(s) /\ IsSpace(s[p]) THEN SpaceRunEnd(s, p + 1) ELSE p - 1

RECURSIVE DotRunEnd(_, _)
DotRunEnd(s, p) ==
    IF p <= Len(s) /\ IsDot(s[p]) THEN DotRunEnd(s, p + 1) ELSE p - 1

\* \w+ at position p: the positions where a non-empty run of word characters
\* may end
WordRuns1(s, p) == p..WordRunEnd(s, p)

\* \s+ at position p
SpaceRuns1(s, p) == p..SpaceRunEnd(s, p)

\* \s* at position p: as \s+, or the empty run (ending at p - 1)
SpaceRuns0(s, p) == (p - 1)..SpaceRunEnd(s, p)

\* .* or .*? at position p
DotRuns0(s, p) == (p - 1)..DotRunEnd(s, p)

\* The backtracking order: parse t is tried before parse u when, at the first
\* quantifier where they differ, t took more (greedy, dirs = 1) or less
\* (lazy, dirs = -1).
TriedBefore(t, u, dirs) ==
    \E k \in 1..Len(dirs) :
        /\ \A j \in 1..(k - 1) : t[j] = u[j]
        /\ dirs[k] * t[k] > dirs[k] * u[k]

\* the parse a backtracking matcher returns among the successful ones
FirstParse(P, dirs) ==
    CHOOSE t \in P : \A u \in P \ {t} : TriedBefore(t, u, dirs)

\* String.prototype.match without the g flag: the leftmost position with a
\* successful parse and the first parse there, <<>> for null.  parsesAt[i]
\* is the set of successful parses from position i.
Leftmost(parsesAt, dirs) ==
    LET starts == {i \in DOMAIN parsesAt : parsesAt[i] # {}}
    IN  IF starts = {} THEN <<>>
        ELSE <<[start |-> Min(starts),
                parse |-> FirstParse(parsesAt[Min(starts)], dirs)]>>

\* String.prototype.trim
Trim(s) ==
    LET keep == {i \in 1..Len(s) : ~IsSpace(s[i])}
    IN  IF keep = {} THEN <<>> ELSE SubSeq(s, Min(keep), Max(keep))

\* String.prototype.split on a one-character separator
RECURSIVE Split(_, _)
Split(s, c) ==
    LET at == {i \in 1..Len(s) : s[i] = c}
    IN  IF at = {} THEN <<s>>
        ELSE <<SubSeq(s, 1, Min(at) - 1)>>
                 \o Split(SubSeq(s, Min(at) + 1, Len(s)), c)

\* Array.prototype.filter(Boolean) on strings: the empty string is falsy
FilterBoolean(xs) == SelectSeq(xs, LAMBDA e : e # <<>>)

\* Array.prototype.join
RECURSIVE Join(_, _)
Join(xs, sep) ==
    IF xs = <<>> THEN <<>>
    ELSE IF Len(xs) = 1 THEN xs[1]
    ELSE xs[1] \o sep \o Join(Tail(xs), sep)

RECURSIVE Flatten(_)
Flatten(xss) ==
    IF xss = <<>> THEN <<>> ELSE Head(xss) \o Flatten(Tail(xss))

(***************************************************************************)
(* getKeccak256: web3.utils.keccak256(text).slice(0, 10).  Keccak-256 is   *)
(* the library's; the digest is kept as the term "first four bytes of the  *)
(* Keccak-256 of text", which records exactly which text was hashed.       *)
(***************************************************************************)
getKeccak256(text) == [first4BytesOfKeccak256 |-> text]

(***************************************************************************)
(* /(\w+)(\s+\w+)?(\[\])?$/ from position i: the successful parses         *)
(* <<end of group 1, group 2 taken, end of \s+, end of group 2, [] taken>> *)
(***************************************************************************)
CanonTail(s, p) ==
    (IF MatchLit(s, p, <<"[", "]">>) /\ p + 2 = Len(s) + 1 THEN {1} ELSE {})
        \cup (IF p = Len(s) + 1 THEN {0} ELSE {})

CanonParsesAt(s, i) ==
    UNION {
        UNION { UNION { {<<k, 1, e1, e2, h3>> : h3 \in CanonTail(s, e2 + 1)}
                        : e2 \in WordRuns1(s, e1 + 1) }
                : e1 \in SpaceRuns1(s, k + 1) }
          \cup {<<k, 0, 0, 0, h3>> : h3 \in CanonTail(s, k + 1)}
        : k \in WordRuns1(s, i) }

CanonGroups(s, m) ==
    IF m = <<>> THEN <<>>
    ELSE <<[g1 |-> SubSeq(s, m[1].start, m[1].parse[1]),
            g3 |-> IF m[1].parse[5] = 1 THEN <<"[", "]">> ELSE <<>>]>>

\* input.match(/(\w+)(\s+\w+)?(\[\])?$/): <<>> for null, else <<groups>>
CanonMatch(s) ==
    CanonGroups(s, Leftmost([i \in 1..Len(s) |-> CanonParsesAt(s, i)],
                            <<1, 1, 1, 1, 1>>))

\* what a call that throws returns
Thrown == [threw |-> TRUE, value |-> <<>>]

Returned(v) == [threw |-> FALSE, value |-> v]

\* what the callback of inputs.map makes of the match: the first script
\* guards against null and appends group 3, the second indexes the match
TypeOfMatch(ver, match) ==
    IF ver = 1
    THEN Returned(IF match # <<>> THEN match[1].g1 \o match[1].g3 ELSE <<>>)
    ELSE IF match = <<>> THEN Thrown    \* null[1]: TypeError
         ELSE Returned(match[1].g1)

\* the callback getCanonicalForm maps over the parameter fragments
CanonicalType(ver, input) == TypeOfMatch(ver, CanonMatch(Trim(input)))

\* FormOfTypes with the types joined by a comma and a space
FormOfTypes_CommaSpace(name, types) ==
    IF \E i \in 1..Len(types) : types[i].threw THEN Thrown
    ELSE Returned(name \o <<"(">>
             \o Join([i \in 1..Len(types) |-> types[i].value], <<",", " ">>)
             \o <<")">>)

\* `${name}(${types.join(',')})`
FormOfTypes(name, types) ==
    IF \E i \in 1..Len(types) : types[i].threw THEN Thrown
    ELSE Returned(name \o <<"(">>
             \o Join([i \in 1..Len(types) |-> types[i].value], <<",">>)
             \o <<")">>)

getCanonicalForm(ver, name, inputs) ==
    FormOfTypes(name, [i \in 1..Len(inputs) |-> CanonicalType(ver, inputs[i])])

(***************************************************************************)
(* /function\s+(\w+)\s*\((.*?)\)\s*/ from position i: the successful       *)
(* parses <<end of \s+, end of the name, end of \s*, end of the params>>.  *)
(* The closing \s* takes no part in a capture and always succeeds.         *)
(***************************************************************************)
\* the groups of a function or error match: the name and the parameters
DeclarationGroups(s, m) ==
    IF m = <<>> THEN <<>>
    ELSE <<[name |-> SubSeq(s, m[1].parse[1] + 1, m[1].parse[2]),
            params |-> SubSeq(s, m[1].parse[3] + 2, m[1].parse[4])]>>

FunctionParsesAt(s, i) ==
    IF ~MatchLit(s, i, Str_function) THEN {}
    ELSE UNION { UNION { UNION {
            {<<e1, e2, e3, e4>> :
                e4 \in {e \in DotRuns0(s, e3 + 2) :
                           /\ e3 + 1 <= Len(s) /\ s[e3 + 1] = "("
                           /\ e + 1 <= Len(s) /\ s[e + 1] = ")"}}
            : e3 \in SpaceRuns0(s, e2 + 1) }
            : e2 \in WordRuns1(s, e1 + 1) }
            : e1 \in SpaceRuns1(s, i + Len(Str_function)) }

\* line.match(/function\s+(\w+)\s*\((.*?)\)\s*/): <<>> for null
FunctionMatch(s) ==
    DeclarationGroups(s, Leftmost([i \in 1..Len(s) |-> FunctionParsesAt(s, i)],
                                  <<1, 1, 1, -1>>))

(***************************************************************************)
(* /error\s+(\w+)\s*\((.*?)\);/ from position i, parses as above.          *)
(***************************************************************************)
ErrorParsesAt(s, i) ==
    IF ~MatchLit(s, i, Str_error) THEN {}
    ELSE UNION { UNION { UNION {
            {<<e1, e2, e3, e4>> :
                e4 \in {e \in DotRuns0(s, e3 + 2) :
                           /\ e3 + 1 <= Len(s) /\ s[e3 + 1] = "("
                           /\ MatchLit(s, e + 1, <<")", ";">>)}}
            : e3 \in SpaceRuns0(s, e2 + 1) }
            : e2 \in WordRuns1(s, e1 + 1) }
            : e1 \in SpaceRuns1(s, i + Len(Str_error)) }

\* line.match(/error\s+(\w+)\s*\((.*?)\);/)
ErrorMatch(s) ==
    DeclarationGroups(s, Leftmost([i \in 1..Len(s) |-> ErrorParsesAt(s, i)],
                                  <<1, 1, 1, -1>>))

(***************************************************************************)
(* /require\((.*?),\s*"(.*?)"\);\s*/ from position i: the successful       *)
(* parses <<end of the condition, end of \s*, end of the message>>.        *)
(***************************************************************************)
RequireParsesAt(s, i) ==
    IF ~MatchLit(s, i, Str_requireOpen) THEN {}
    ELSE LET a == i + Len(Str_requireOpen)
         IN  UNION { UNION {
                {<<c, e, m>> :
                    m \in {n \in DotRuns0(s, e + 2) :
                              /\ e + 1 <= Len(s) /\ s[e + 1] = "\""
                              /\ MatchLit(s, n + 1, <<"\"", ")", ";">>)}}
                : e \in SpaceRuns0(s, c + 2) }
                : c \in {d \in DotRuns0(s, a) :
                            d + 1 <= Len(s) /\ s[d + 1] = ","} }

RequireGroups(s, m) ==
    IF m = <<>> THEN <<>>
    ELSE <<[condition |-> SubSeq(s, m[1].start + Len(Str_requireOpen), m[1].parse[1]),
            errorMessage |-> SubSeq(s, m[1].parse[2] + 2, m[1].parse[3])]>>

\* line.match(/require\((.*?),\s*"(.*?)"\);\s*/)
RequireMatch(s) ==
    RequireGroups(s, Leftmost([i \in 1..Len(s) |-> RequireParsesAt(s, i)],
                              <<-1, 1, -1>>))

\* \b before position p (between s[p - 1] and s[p])
WordBoundary(s, p) ==
    (p - 1 \in 1..Len(s) /\ IsWord(s[p - 1])) # (p \in 1..Len(s) /\ IsWord(s[p]))

\* line.match(/\bpublic\b/) is not null
PublicVarMatch(s) ==
    \E i \in 1..Len(s) :
        /\ MatchLit(s, i, Str_public)
        /\ WordBoundary(s, i)
        /\ WordBoundary(s, i + Len(Str_public))

(***************************************************************************)
(* The pattern of the getter detection, from position i: \b, (\w+), \s+,  *)
(* (\w+), \s*, =, \s*, a greedy group of any characters, then ; .  The     *)
(* successful parses <<end of the type, end of \s+, end of the name, end   *)
(* of \s*, end of \s* after =, end of the expression>>.                    *)
(***************************************************************************)
VarParsesAt(s, i) ==
    IF ~WordBoundary(s, i) THEN {}
    ELSE UNION { UNION { UNION { UNION { UNION {
            {<<k, e1, e2, e3, e4, e5>> :
                e5 \in {e \in DotRuns0(s, e4 + 1) :
                           e + 1 <= Len(s) /\ s[e + 1] = ";"}}
            : e4 \in {e \in SpaceRuns0(s, e3 + 2) :
                         e3 + 1 <= Len(s) /\ s[e3 + 1] = "="} }
            : e3 \in SpaceRuns0(s, e2 + 1) }
            : e2 \in WordRuns1(s, e1 + 1) }
            : e1 \in SpaceRuns1(s, k + 1) }
            : k \in WordRuns1(s, i) }

\* line.match of the getter pattern: <<>> for null
VarGroups(s, m) ==
    IF m = <<>> THEN <<>>
    ELSE <<[type |-> SubSeq(s, m[1].start, m[1].parse[1]),
            name |-> SubSeq(s, m[1].parse[2] + 1, m[1].parse[3])]>>

VarMatch(s) ==
    VarGroups(s, Leftmost([i \in 1..Len(s) |-> VarParsesAt(s, i)],
                          <<1, 1, 1, 1, 1, 1>>))

(***************************************************************************)
(* The body of lines.forEach in calculateSignatures: what one line pushes  *)
(* to functions, errors, requires and getters (each <<>> or one record),   *)
(* or that getCanonicalForm threw.  The first script has no getters.       *)
(***************************************************************************)
\* LineNumber with the index of forEach taken as it is
LineNumber_ZeroBased(index) == index

\* line: index + 1
LineNumber(index) == index + 1

\* RequireSignature with the condition hashed along with the message
RequireSignature_WithCondition(condition, errorMessage) ==
    getKeccak256(condition \o errorMessage)

\* getKeccak256(errorMessage): the signature of a require record
RequireSignature(condition, errorMessage) == getKeccak256(errorMessage)

NoPush == [threw |-> FALSE, functions |-> <<>>, errors |-> <<>>,
           requires |-> <<>>, getters |-> <<>>]

\* const canonicalForm = getCanonicalForm(name, inputs) of a function or
\* error match: <<>> when the line did not match
FormOfDeclaration(ver, match) ==
    IF match = <<>> THEN <<>>
    ELSE <<getCanonicalForm(ver, match[1].name,
               FilterBoolean(Split(match[1].params, ",")))>>

\* getCanonicalForm(name, [type]) of a public variable
FormOfGetter(ver, varMatch) ==
    IF varMatch = <<>> THEN <<>>
    ELSE <<getCanonicalForm(ver, varMatch[1].name, <<varMatch[1].type>>)>>

\* GetterMatch as the last branch of an else-if chain
GetterMatch_ElseIf(ver, line) ==
    IF \/ FunctionMatch(line) # <<>>
       \/ ErrorMatch(line) # <<>>
       \/ RequireMatch(line) # <<>>
    THEN <<>>
    ELSE IF ver = 2 /\ PublicVarMatch(line) THEN VarMatch(line) ELSE <<>>

\* the getter detection of the second script
GetterMatch(ver, line) ==
    IF ver = 2 /\ PublicVarMatch(line) THEN VarMatch(line) ELSE <<>>

\* functions.push, errors.push: { line, text, signature }
DeclarationRecord(index, form) ==
    IF form = <<>> THEN <<>>
    ELSE <<[line |-> LineNumber(index), text |-> form[1].value,
            signature |-> getKeccak256(form[1].value)]>>

\* requires.push
RequireRecord(index, requireMatch) ==
    IF requireMatch = <<>> THEN <<>>
    ELSE <<[line |-> LineNumber(index),
            text |-> Str_requireOpen \o requireMatch[1].condition
                        \o <<",", " ", "\"">> \o requireMatch[1].errorMessage
                        \o <<"\"", ")">>,
            signature |-> RequireSignature(requireMatch[1].condition,
                                           requireMatch[1].errorMessage)]>>

\* getters.push: { text, signature }
GetterRecord(form) ==
    IF form = <<>> THEN <<>>
    ELSE <<[text |-> form[1].value, signature |-> getKeccak256(form[1].value)]>>

Pushes(index, fn, er, requireMatch, gt) ==
    IF \/ fn # <<>> /\ fn[1].threw
       \/ er # <<>> /\ er[1].threw
       \/ gt # <<>> /\ gt[1].threw
    THEN [NoPush EXCEPT !.threw = TRUE]
    ELSE [threw |-> FALSE,
          functions |-> DeclarationRecord(index, fn),
          errors |-> DeclarationRecord(index, er),
          requires |-> RequireRecord(index, requireMatch),
          getters |-> GetterRecord(gt)]

LineRecords(ver, line, index) ==
    Pushes(index,
           FormOfDeclaration(ver, FunctionMatch(line)),
           FormOfDeclaration(ver, ErrorMatch(line)),
           RequireMatch(line),
           FormOfGetter(ver, GetterMatch(ver, line)))

(***************************************************************************)
(* Paths are sequences of names.  directoryPath is args[0].                *)
(***************************************************************************)
directoryPath == <<"contracts">>

\* path.join(dir, item.name)
PathJoin(dir, name) == dir \o <<name>>

\* path.relative(from, to), for a path `to` below `from`
PathRelative(from, to) ==
    IF Len(to) >= Len(from) /\ SubSeq(to, 1, Len(from)) = from
    THEN SubSeq(to, Len(from) + 1, Len(to))
    ELSE to

(***************************************************************************)
(* writeMarkdown: the outputFile.write calls of one section, in order.     *)
(***************************************************************************)
Subsection(title, records) ==
    IF records = <<>> THEN <<>>
    ELSE <<[write |-> "title", title |-> title]>>
             \o [i \in 1..Len(records) |->
                    [write |-> "item", title |-> title, record |-> records[i]]]
             \o <<[write |-> "blank"]>>

writeMarkdown(ver, filePath, functions, errors, requires, getters) ==
    <<[write |-> "header", relativePath |-> PathRelative(directoryPath, filePath)]>>
        \o Subsection("Functions", functions)
        \o (IF ver = 2 THEN Subsection("Getters", getters) ELSE <<>>)
        \o Subsection("Custom Errors", errors)
        \o Subsection("Require Statements", requires)
        \o <<[write |-> "rule"]>>

(***************************************************************************)
(* calculateSignatures: the records of every line, in line order           *)
(* (ExtractRecords: the four arrays when lines.forEach ends), then the     *)
(* section; nothing is written when a line throws.                         *)
(***************************************************************************)
Collect(per) ==
    IF \E i \in 1..Len(per) : per[i].threw
    THEN [NoPush EXCEPT !.threw = TRUE]
    ELSE [threw |-> FALSE,
          functions |-> Flatten([i \in 1..Len(per) |-> per[i].functions]),
          errors |-> Flatten([i \in 1..Len(per) |-> per[i].errors]),
          requires |-> Flatten([i \in 1..Len(per) |-> per[i].requires]),
          getters |-> Flatten([i \in 1..Len(per) |-> per[i].getters])]

\* lines.forEach((line, index) => ...)
ForEachLine(ver, lines) ==
    Collect([i \in 1..Len(lines) |-> LineRecords(ver, lines[i], i - 1)])

ExtractRecords(ver, source) == ForEachLine(ver, Split(source, "\n"))

WriteFound(ver, filePath, found) ==
    IF found.threw THEN [threw |-> TRUE, writes |-> <<>>]
    ELSE [threw |-> FALSE,
          writes |-> writeMarkdown(ver, filePath, found.functions,
                         found.errors, found.requires, found.getters)]

calculateSignatures(ver, source, filePath) ==
    WriteFound(ver, filePath, ExtractRecords(ver, source))

(***************************************************************************)
(* Inputs.  A parameter fragment and a source line are described by what   *)
(* they declare and rendered to text; the scripts see only the text.       *)
(***************************************************************************)
MaxParams == 2

MaxLines == 3

RECURSIVE SeqsUpTo(_, _)
SeqsUpTo(S, n) ==
    IF n = 0 THEN {<<>>}
    ELSE LET shorter == SeqsUpTo(S, n - 1)
         IN  shorter \cup {Append(q, x) : q \in {r \in shorter : Len(r) = n - 1}, x \in S}

\* <type>[[]] [calldata|memory|storage] [<name>]
Fragments ==
    [type : {Str_uint256, Str_address},
     array : BOOLEAN,
     location : {<<>>, Str_calldata, Str_memory, Str_storage},
     name : {<<>>, Str_x, Str_r, Str_recipients}]

RenderFragment(d) ==
    d.type \o (IF d.array THEN <<"[", "]">> ELSE <<>>)
           \o (IF d.location = <<>> THEN <<>> ELSE <<" ">> \o d.location)
           \o (IF d.name = <<>> THEN <<>> ELSE <<" ">> \o d.name)

\* <type> <name>
Pairs == [type : {Str_address, Str_uint256}, name : {Str_to, Str_amount}]

RenderPair(d) == d.type \o <<" ">> \o d.name

LineOf(shape) ==
    [shape |-> shape, name |-> <<>>, params |-> <<>>, type |-> <<>>,
     expr |-> <<>>, condition |-> <<>>, message |-> <<>>, parts |-> {}]

\* function transfer(<params>) public returns (bool)
FunctionLines(P) ==
    {[LineOf("function") EXCEPT !.name = Str_transfer, !.params = ps] : ps \in P}

\* error InsufficientBalance(<params>);
ErrorLines(P) ==
    {[LineOf("error") EXCEPT !.name = Str_InsufficientBalance, !.params = ps] : ps \in P}

\* <type> public <name> = <expr>;
PublicVarLines ==
    {[LineOf("publicVar") EXCEPT !.type = t, !.name = n, !.expr = e] :
        t \in {Str_uint256, Str_address},
        n \in {Str_totalSupply, Str_owner},
        e \in {Str_zero, Str_msgSender}}

\* require(<condition>, "<message>");
RequireLines ==
    {[LineOf("require") EXCEPT !.condition = c, !.message = m] :
        c \in {Str_ok, Str_balanceGeAmount, Str_callAB},
        m \in {Str_InsufficientBalanceMsg, Str_no}}

\* a line holding any of: a function header, a custom error, a require, an
\* assignment to a variable declared public
MixedLines ==
    {[LineOf("mixed") EXCEPT !.parts = ps] :
        ps \in SUBSET {"function", "error", "require", "publicVar"}}

\* function f( )  and  error E( );
BlankParamLines == {LineOf("blankFunction"), LineOf("blankError")}

\* an empty line; a pragma
TextLines == {LineOf("blank"), LineOf("pragma")}

RenderPart(part) ==
    CASE part = "function" -> Str_function \o <<" ">> \o Str_f \o <<"(", ")">>
                                  \o Str_externalBrace
      [] part = "error" -> Str_error \o <<" ">> \o Str_E \o <<"(", ")", ";">>
      [] part = "require" -> Str_requireOpen \o Str_ok \o <<",", " ", "\"">>
                                  \o Str_no \o <<"\"", ")", ";">>
      [] part = "publicVar" -> Str_uint256 \o <<" ">> \o Str_public \o <<" ">>
                                  \o Str_y \o <<" ", "=", " ">> \o Str_one \o <<";">>

RenderLine(d) ==
    CASE d.shape = "function" ->
            Str_function \o <<" ">> \o d.name \o <<"(">>
                \o Join([i \in 1..Len(d.params) |-> RenderPair(d.params[i])], <<",", " ">>)
                \o <<")">> \o Str_publicReturnsBool
      [] d.shape = "error" ->
            Str_error \o <<" ">> \o d.name \o <<"(">>
                \o Join([i \in 1..Len(d.params) |-> RenderPair(d.params[i])], <<",", " ">>)
                \o <<")", ";">>
      [] d.shape = "publicVar" ->
            d.type \o <<" ">> \o Str_public \o <<" ">> \o d.name
                \o <<" ", "=", " ">> \o d.expr \o <<";">>
      [] d.shape = "require" ->
            Str_requireOpen \o d.condition \o <<",", " ", "\"">> \o d.message
                \o <<"\"", ")", ";">>
      [] d.shape = "mixed" ->
            Join(SelectSeq(<<RenderPart("function"), RenderPart("error"),
                             RenderPart("require"), RenderPart("publicVar")>>,
                           LAMBDA t : \E x \in d.parts : t = RenderPart(x)),
                 <<" ">>)
      [] d.shape = "blankFunction" ->
            Str_function \o <<" ">> \o Str_f \o <<"(", " ", ")">>
      [] d.shape = "blankError" ->
            Str_error \o <<" ">> \o Str_E \o <<"(", " ", ")", ";">>
      [] d.shape = "blank" -> <<>>
      [] d.shape = "pragma" -> Str_pragma

\* the lines joined by newlines
RenderSource(ds) == Join([i \in 1..Len(ds) |-> RenderLine(ds[i])], <<"\n">>)

\* sources of one line, of every shape
OneLineSources ==
    {<<d>> : d \in FunctionLines(SeqsUpTo(Pairs, MaxParams))
                     \cup ErrorLines(SeqsUpTo(Pairs, MaxParams))
                     \cup PublicVarLines \cup RequireLines \cup MixedLines
                     \cup BlankParamLines \cup TextLines}

\* sources of up to MaxLines lines
BasicLines ==
    FunctionLines({<<>>}) \cup ErrorLines({<<>>})
        \cup {[LineOf("require") EXCEPT !.condition = Str_ok, !.message = Str_no],
              [LineOf("mixed") EXCEPT !.parts = {"function", "require"}],
              LineOf("blank")}

ManyLineSources == SeqsUpTo(BasicLines, MaxLines) \ {<<>>}

NoFragment == [type |-> <<>>, array |-> FALSE, location |-> <<>>, name |-> <<>>]

Inputs ==
    {[input |-> "fragment", fragment |-> d, lines |-> <<>>] : d \in Fragments}
        \cup {[input |-> "source", fragment |-> NoFragment, lines |-> ds] :
                ds \in OneLineSources \cup ManyLineSources}

(***************************************************************************)
(* The directory the scripts walk.  fsp.readdir lists a directory in a     *)
(* fixed order; an item is a directory, a file, or something else.         *)
(***************************************************************************)
libPath == PathJoin(directoryPath, "lib")

deepPath == PathJoin(libPath, "deep")

Item(name, kind, ext) == [name |-> name, kind |-> kind, ext |-> ext]

Listing(dir) ==
    CASE dir = directoryPath ->
            <<Item("a.sol", "file", ".sol"), Item("lib", "dir", ""),
              Item("notes.txt", "file", ".txt"), Item("z.sol", "file", ".sol")>>
      [] dir = libPath ->
            <<Item("deep", "dir", ""), Item("b.sol", "file", ".sol"),
              Item("link.sol", "other", ".sol")>>
      [] dir = deepPath -> <<Item("c.sol", "file", ".sol")>>

Dirs == {directoryPath, libPath, deepPath}

\* item.isFile() && path.extname(fullPath) === '.sol'
IsSolFile(item) == item.kind = "file" /\ item.ext = ".sol"

SolFiles ==
    UNION {{PathJoin(d, Listing(d)[i].name) :
                i \in {j \in 1..Len(Listing(d)) : IsSolFile(Listing(d)[j])}} : d \in Dirs}

\* what a file may hold
FileSources ==
    {<<LineOf("blank")>>,
     <<LineOf("pragma"), LineOf("blank")>>,
     <<LineOf("pragma"),
       [LineOf("function") EXCEPT !.name = Str_transfer,
            !.params = <<[type |-> Str_address, name |-> Str_to]>>],
       [LineOf("mixed") EXCEPT !.parts = {"require", "publicVar"}],
       [LineOf("error") EXCEPT !.name = Str_InsufficientBalance, !.params = <<>>]>>,
     <<[LineOf("error") EXCEPT !.name = Str_InsufficientBalance, !.params = <<>>],
       LineOf("blankFunction")>>}

\* how many paths may be unreadable in one run
MaxDenied == 1

\* calculateSignatures on each text a file may hold, tabulated
Calculated[ver \in {1, 2}, ds \in FileSources, filePath \in SolFiles] ==
    calculateSignatures(ver, RenderSource(ds), filePath)

VARIABLES
    version,    \* which of the two scripts runs
    given,      \* the input handed to a function applied on its own
    result,     \* what it returned
    files,      \* the disk: what each .sol file holds
    denied,     \* the disk: the paths whose readdir or readFile fails
    pc,         \* where the async main function is
    stack,      \* the readFilesRecursively calls in progress: [dir, next]
    awaiting,   \* the path of the pending readdir or readFile
    out,        \* the calls made on outputFile, in order
    console     \* the console.log and console.error calls, in order

vars == <<version, given, result, files, denied, pc, stack, awaiting, out, console>>

walk == <<files, denied, pc, stack, awaiting, out, console>>

NotApplied == [applied |-> "no"]

NoInput == [input |-> "none", fragment |-> NoFragment, lines |-> <<>>]

(***************************************************************************)
(* The functions applied on their own.                                     *)
(***************************************************************************)
InitApply ==
    /\ version \in {1, 2}
    /\ given \in Inputs
    /\ result = NotApplied
    /\ files = [p \in SolFiles |-> <<LineOf("blank")>>]
    /\ denied = {}
    /\ pc = "main"
    /\ stack = <<>>
    /\ awaiting = <<>>
    /\ out = <<>>
    /\ console = <<>>

\* the per-parameter callback of getCanonicalForm, on one fragment
ApplyCanonicalType ==
    /\ result = NotApplied
    /\ given.input = "fragment"
    /\ result' = [applied |-> "CanonicalType",
                  returned |-> CanonicalType(version, RenderFragment(given.fragment))]
    /\ UNCHANGED <<version, given, walk>>

\* lines.forEach of calculateSignatures, on one source
ApplyExtractRecords ==
    /\ result = NotApplied
    /\ given.input = "source"
    /\ result' = [applied |-> "ExtractRecords",
                  returned |-> ExtractRecords(version, RenderSource(given.lines))]
    /\ UNCHANGED <<version, given, walk>>

NextApply == ApplyCanonicalType \/ ApplyExtractRecords

SpecApply == InitApply /\ [][NextApply]_vars

(***************************************************************************)
(* A run of a script, from the async main function on.                     *)
(***************************************************************************)
Init ==
    /\ version \in {1, 2}
    /\ given = NoInput
    /\ result = NotApplied
    /\ files \in [SolFiles -> FileSources]
    /\ denied \in {D \in SUBSET (Dirs \cup SolFiles) : Cardinality(D) <= MaxDenied}
    /\ pc = "main"
    /\ stack = <<>>
    /\ awaiting = <<>>
    /\ out = <<>>
    /\ console = <<>>

Top == stack[Len(stack)]

NextItem == Listing(Top.dir)[Top.next]

Advance == [stack EXCEPT ![Len(stack)].next = @ + 1]

\* await readFilesRecursively(directoryPath) in main: readdir is issued
CallReadFilesRecursively ==
    /\ pc = "main"
    /\ pc' = "readdir"
    /\ awaiting' = directoryPath
    /\ UNCHANGED <<version, given, result, files, denied, stack, out, console>>

\* fsp.readdir resolves: the for loop over the items starts
ReaddirResolves ==
    /\ pc = "readdir"
    /\ awaiting \notin denied
    /\ stack' = Append(stack, [dir |-> awaiting, next |-> 1])
    /\ pc' = "loop"
    /\ UNCHANGED <<version, given, result, files, denied, awaiting, out, console>>

\* ReaddirRejects with outputFile.end() at the end of the try block, not in
\* finally
ReaddirRejects_EndInTry ==
    /\ pc = "readdir"
    /\ awaiting \in denied
    /\ stack' = <<>>
    /\ console' = Append(console, [call |-> "error", path |-> awaiting])
    /\ pc' = "exited"
    /\ UNCHANGED <<version, given, result, files, denied, awaiting, out>>

\* fsp.readdir rejects: no caller catches before main does
ReaddirRejects ==
    /\ pc = "readdir"
    /\ awaiting \in denied
    /\ stack' = <<>>
    /\ console' = Append(console, [call |-> "error", path |-> awaiting])
    /\ pc' = "finally"
    /\ UNCHANGED <<version, given, result, files, denied, awaiting, out>>

\* item.isDirectory(): the recursive call, awaited
EnterDirectory ==
    /\ pc = "loop"
    /\ Top.next <= Len(Listing(Top.dir))
    /\ NextItem.kind = "dir"
    /\ awaiting' = PathJoin(Top.dir, NextItem.name)
    /\ stack' = Advance
    /\ pc' = "readdir"
    /\ UNCHANGED <<version, given, result, files, denied, out, console>>

\* a .sol file: fsp.readFile is issued, awaited
StartReadFile ==
    /\ pc = "loop"
    /\ Top.next <= Len(Listing(Top.dir))
    /\ NextItem.kind # "dir"
    /\ IsSolFile(NextItem)
    /\ awaiting' = PathJoin(Top.dir, NextItem.name)
    /\ stack' = Advance
    /\ pc' = "readFile"
    /\ UNCHANGED <<version, given, result, files, denied, out, console>>

\* any other item is passed over
SkipItem ==
    /\ pc = "loop"
    /\ Top.next <= Len(Listing(Top.dir))
    /\ NextItem.kind # "dir"
    /\ ~IsSolFile(NextItem)
    /\ stack' = Advance
    /\ UNCHANGED <<version, given, result, files, denied, pc, awaiting, out, console>>

\* fsp.readFile resolves: calculateSignatures runs to its end, or throws
\* into the catch of the loop
ReadFileResolves ==
    /\ pc = "readFile"
    /\ awaiting \notin denied
    /\ LET done == Calculated[version, files[awaiting], awaiting]
       IN  IF done.threw
           THEN /\ console' = Append(console, [call |-> "error", path |-> awaiting])
                /\ out' = out
           ELSE /\ out' = out \o done.writes
                /\ console' = console
    /\ pc' = "loop"
    /\ UNCHANGED <<version, given, result, files, denied, stack, awaiting>>

\* fsp.readFile rejects, into the catch of the loop
ReadFileRejects ==
    /\ pc = "readFile"
    /\ awaiting \in denied
    /\ console' = Append(console, [call |-> "error", path |-> awaiting])
    /\ pc' = "loop"
    /\ UNCHANGED <<version, given, result, files, denied, stack, awaiting, out>>

\* the for loop ends: the call returns to its caller, the outermost to main
ReturnFromDirectory ==
    /\ pc = "loop"
    /\ Top.next > Len(Listing(Top.dir))
    /\ stack' = SubSeq(stack, 1, Len(stack) - 1)
    /\ IF Len(stack) = 1
       THEN /\ console' = Append(console, [call |-> "log", path |-> directoryPath])
            /\ pc' = "finally"
       ELSE /\ console' = console
            /\ pc' = "loop"
    /\ UNCHANGED <<version, given, result, files, denied, awaiting, out>>

\* finally: outputFile.end()
EndOutput ==
    /\ pc = "finally"
    /\ out' = Append(out, [write |-> "end"])
    /\ pc' = "exited"
    /\ UNCHANGED <<version, given, result, files, denied, stack, awaiting, console>>

Next ==
    \/ CallReadFilesRecursively
    \/ ReaddirResolves
    \/ ReaddirRejects
    \/ EnterDirectory
    \/ StartReadFile
    \/ SkipItem
    \/ ReadFileResolves
    \/ ReadFileRejects
    \/ ReturnFromDirectory
    \/ EndOutput

Spec == Init /\ [][Next]_vars

\* every pending promise settles and every continuation runs
FairSpec == Spec /\ WF_vars(Next)

(***************************************************************************)
(* The claims.                                                             *)
(***************************************************************************)
Extracted == result.applied = "ExtractRecords"

\* the one line of a one-line input
TheLine == given.lines[1]

OneLine(shape) == Extracted /\ Len(given.lines) = 1 /\ TheLine.shape = shape

Found == result.returned

ArraySuffix(d) == IF d.array THEN <<"[", "]">> ELSE <<>>

\* name(t1,...,tn) of a declaration as described
SignatureOf(d) ==
    d.name \o <<"(">>
        \o Join([i \in 1..Len(d.params) |-> d.params[i].type], <<",">>)
        \o <<")">>

\* C1: the per-parameter mapping of getCanonicalForm returns the first word
\* of a fragment <type>[[]] [calldata|memory|storage] [<name>], with [] appended
\* when the type is an array.
C1_FirstWordAndArray ==
    result.applied = "CanonicalType" =>
        result.returned = Returned(given.fragment.type \o ArraySuffix(given.fragment))

\* C2: the line <type> public <name> = <expr>; gives one getter record whose
\* text is <name>(<type>).
C2_GetterOfDeclaredType ==
    (OneLine("publicVar") /\ version = 2) =>
        /\ ~Found.threw
        /\ Len(Found.getters) = 1
        /\ Found.getters[1].text = TheLine.name \o <<"(">> \o TheLine.type \o <<")">>

\* C3: a function or custom-error declaration of n >= 0 fragments
\* <type> <name> gives, in the sequence of its kind, one record for its line
\* whose text is name(t1,...,tn), the types in declaration order, name() when
\* n = 0.
C3_DeclarationText ==
    Extracted =>
        \A n \in 1..Len(given.lines) :
            /\ given.lines[n].shape = "function" =>
                  /\ ~Found.threw
                  /\ \E i \in 1..Len(Found.functions) :
                        /\ Found.functions[i].line = n
                        /\ Found.functions[i].text = SignatureOf(given.lines[n])
                  /\ \A i \in 1..Len(Found.functions) :
                        Found.functions[i].line = n =>
                            Found.functions[i].text = SignatureOf(given.lines[n])
            /\ given.lines[n].shape = "error" =>
                  /\ ~Found.threw
                  /\ \E i \in 1..Len(Found.errors) :
                        /\ Found.errors[i].line = n
                        /\ Found.errors[i].text = SignatureOf(given.lines[n])
                  /\ \A i \in 1..Len(Found.errors) :
                        Found.errors[i].line = n =>
                            Found.errors[i].text = SignatureOf(given.lines[n])

\* two parameters: transfer(address to, uint256 amount) gave
\* transfer(address,uint256)
C3_Witness ==
    /\ OneLine("function")
    /\ TheLine.params = <<[type |-> Str_address, name |-> Str_to],
                          [type |-> Str_uint256, name |-> Str_amount]>>
    /\ Len(Found.functions) = 1
    /\ Found.functions[1].text =
           Str_transfer \o <<"(">> \o Str_address \o <<",">> \o Str_uint256 \o <<")">>

\* the sequences a line added a record to
Fed == {k \in {"functions", "errors", "requires", "getters"} : Found[k] # <<>>}

Count(b) == IF b THEN 1 ELSE 0

C5_BlankFragmentTolerated ==
    (OneLine("blankFunction") /\ version = 2) =>
        /\ ~Found.threw
        /\ Len(Found.functions) = 1
        /\ Found.functions[1].text = Str_f \o <<"(", ")">>

\* the headers written for path p
HeadersOf(p) ==
    {i \in 1..Len(out) :
        out[i].write = "header" /\ out[i].relativePath = PathRelative(directoryPath, p)}

\* every directory on the way to p can be listed
Listable(p) == \A n \in 1..(Len(p) - 1) : SubSeq(p, 1, n) \notin denied

\* a line on which the second script's getCanonicalForm throws
HasBlankParams(ds) ==
    \E n \in 1..Len(ds) : ds[n].shape \in {"blankFunction", "blankError"}

\* C6: a file that cannot be read, or a directory that cannot be listed,
\* does not end the run: every other readable .sol file gets its section.
\* (Stated on the runs where no file makes getCanonicalForm throw.)
C6_FailuresIsolated ==
    (pc = "exited" /\ version = 2 /\ \A p \in SolFiles : ~HasBlankParams(files[p])) =>
        \A p \in SolFiles : (p \notin denied /\ Listable(p)) => HeadersOf(p) # {}

RequireText(d) ==
    Str_requireOpen \o d.condition \o <<",", " ", "\"">> \o d.message \o <<"\"", ")">>

\* C7, as stated: the text of a require record is the message, and its
\* signature the digest of the message.
C7_TextIsMessage ==
    OneLine("require") =>
        /\ Len(Found.requires) = 1
        /\ Found.requires[1].text = TheLine.message
        /\ Found.requires[1].signature = getKeccak256(TheLine.message)

\* C7, amended: the text of a require record is the statement as matched,
\* require(<condition>, "<message>"), and its signature is the digest of the
\* message alone, whatever the condition.
C7_StatementTextMessageDigest ==
    OneLine("require") =>
        /\ ~Found.threw
        /\ Len(Found.requires) = 1
        /\ Found.requires[1].text = RequireText(TheLine)
        /\ Found.requires[1].signature = getKeccak256(TheLine.message)

\* require(balance >= amount, "Insufficient balance"); was matched
C7_Witness ==
    /\ OneLine("require")
    /\ TheLine.condition = Str_balanceGeAmount
    /\ Len(Found.requires) = 1
    /\ Found.requires[1].signature = getKeccak256(Str_InsufficientBalanceMsg)

\* what a described line declares
Declares(d, kind) ==
    \/ d.shape = kind
    \/ d.shape = "mixed" /\ kind \in d.parts
    \/ d.shape = "blankFunction" /\ kind = "function"
    \/ d.shape = "blankError" /\ kind = "error"

\* the 1-based numbers of the lines declaring `kind`, ascending
LinesDeclaring(ds, kind) ==
    SelectSeq([n \in 1..Len(ds) |-> n], LAMBDA n : Declares(ds[n], kind))

LineFields(records) == [i \in 1..Len(records) |-> records[i].line]

\* C8: the records of functions, errors and requires carry the 1-based number
\* of the line they were matched on: the line numbers of each sequence are
\* those of the lines declaring its kind, in order.
C8_LineFidelity ==
    (Extracted /\ ~Found.threw) =>
        /\ LineFields(Found.functions) = LinesDeclaring(given.lines, "function")
        /\ LineFields(Found.errors) = LinesDeclaring(given.lines, "error")
        /\ LineFields(Found.requires) = LinesDeclaring(given.lines, "require")

\* a function on lines 2 and 3, a require on line 2
C8_Witness ==
    /\ Extracted
    /\ given.lines = <<LineOf("blank"),
                       [LineOf("mixed") EXCEPT !.parts = {"function", "require"}],
                       [LineOf("function") EXCEPT !.name = Str_transfer]>>
    /\ LineFields(Found.functions) = <<2, 3>>
    /\ LineFields(Found.requires) = <<2>>

\* no line of the file matches any rule
MatchesNothing(ds) == \A n \in 1..Len(ds) : ds[n].shape \in {"blank", "pragma"}

\* C9: every .sol file that was read gets exactly one section, the header
\* first and the rule last; a file without a match gets the header and the
\* rule and nothing between.
C9_OneSectionPerFileRead ==
    (pc = "exited" /\ version = 2 /\ denied = {}) =>
        \A p \in SolFiles :
            /\ Cardinality(HeadersOf(p)) = 1
            /\ \A h \in HeadersOf(p) :
                  /\ \E r \in (h + 1)..Len(out) :
                        /\ out[r].write = "rule"
                        /\ \A j \in (h + 1)..(r - 1) : out[j].write \in {"title", "item", "blank"}
                  /\ MatchesNothing(files[p]) => out[h + 1].write = "rule"

\* the .sol files in depth-first listing order
RECURSIVE DepthFirst(_, _)
DepthFirst(dir, i) ==
    IF i > Len(Listing(dir)) THEN <<>>
    ELSE (IF Listing(dir)[i].kind = "dir"
          THEN DepthFirst(PathJoin(dir, Listing(dir)[i].name), 1)
          ELSE IF IsSolFile(Listing(dir)[i])
               THEN <<PathJoin(dir, Listing(dir)[i].name)>>
               ELSE <<>>)
         \o DepthFirst(dir, i + 1)

\* the place of a .sol file in that order
Place(p) == CHOOSE i \in 1..Len(DepthFirst(directoryPath, 1)) :
                DepthFirst(directoryPath, 1)[i] = p

Ends == {i \in 1..Len(out) : out[i].write = "end"}

Headers == {i \in 1..Len(out) : out[i].write = "header"}

PlaceOfHeader(i) == Place(directoryPath \o out[i].relativePath)

EndedOnceAfterTheWalk ==
    /\ Cardinality(Ends) <= 1
    /\ Ends # {} => (Ends = {Len(out)} /\ pc = "exited" /\ stack = <<>>)
    /\ pc = "exited" => Ends # {}

OneFileAtATime ==
    /\ \A i, j \in Headers : i < j => PlaceOfHeader(i) < PlaceOfHeader(j)
    /\ pc = "readFile" =>
          /\ \A i \in Headers : PlaceOfHeader(i) < Place(awaiting)
          /\ out # <<>> => out[Len(out)].write = "rule"

\* C10: the output is ended exactly once, after the walk has finished or
\* failed, with nothing written after; the files are processed one at a time
\* in depth-first listing order, a section complete before the next file is
\* read; and the output is ended in the end, whether the walk throws or not.
C10_EndsOnceInTheEnd ==
    [](EndedOnceAfterTheWalk /\ OneFileAtATime) /\ <>(Ends # {})

\* the walk threw on a directory after a section was written, and the output
\* was ended
C10_Witness ==
    /\ pc = "exited"
    /\ denied \cap Dirs # {}
    /\ Headers # {}
    /\ Ends = {Len(out)}
=============================================================================
